---- MODULE Spec2Model ----
(***************************************************************************)
(* Cave Bat: the collision-and-physics core of src/cave_bat (game.py,      *)
(* entities.py, utils.py, config.py) as a state machine.                   *)
(*                                                                         *)
(* Numbers.  The program computes in floats; the model computes the same   *)
(* expressions exactly, on fixed grids:                                    *)
(*   time            in 1/TU s        (dt = n/TU)                          *)
(*   bat.vy          in 1/VU px/s                                          *)
(*   bat.y           in 1/YU px       (YU = VU*TU)                         *)
(*   forward_speed   in SU px/s       (FORWARD_THRUST = 13 SU)             *)
(*   obstacle x, scroll_offset in 1/XU px                                  *)
(* A tick is taken only for a dt whose results lie on these grids, so no   *)
(* value is ever rounded.  The one place where the floats decide, a        *)
(* distance that equals the radius exactly, is a choice between the two    *)
(* outcomes of the rounding (distance_point_to_segment_leq).               *)
(*                                                                         *)
(* Spec follows whole sessions on the usual frames; SpecWide adds empty    *)
(* and short frames over a shorter time; SpecBat calls the Bat methods     *)
(* alone and SpecGeom the collision test alone.                            *)
(***************************************************************************)
EXTENDS Integers, Sequences, FiniteSets, TLC

\* ------------------------------------------------------------------ config
WINDOW_WIDTH == 1280
WINDOW_HEIGHT == 720
GRAVITY == 1800
FLAP_IMPULSE == -600
MAX_FALL_SPEED == 1200
SCROLL_SPEED == 280
OBSTACLE_SPACING == 360
OBSTACLE_WIDTH == 120
MIN_GAP == 210
MAX_GAP == 290
MARGIN_TOP_BOTTOM == 96
BAT_X == (WINDOW_WIDTH * 28) \div 100
BAT_BODY_RADIUS == 24
FORWARD_THRUST == 260
MAX_FORWARD_SPEED == 360
\* FORWARD_DRAG = 1.6, kept as the fraction FORWARD_DRAG10 / 10
FORWARD_DRAG10 == 16
\* clamp(..., -9999.0, MAX_FALL_SPEED) in Bat.update
VY_FLOOR == -9999
\* cull_dist = 200.0 in Game.update
CULL_DIST == 200
\* range(6) in Game.reset
PREWARM_COUNT == 6
\* x = WINDOW_WIDTH + 200 in Game.reset, x = WINDOW_WIDTH + 80 in spawn_obstacle
PREWARM_AHEAD == 200
SPAWN_AHEAD == 80
\* Obstacle.offscreen: x + OBSTACLE_WIDTH < -20
OFFSCREEN_MARGIN == 20
\* six parts.append(...) in Bat.break_apart
BAT_PART_COUNT == 6

\* ------------------------------------------------------------------- grids
TU == 16
VU == TU \div 8
YU == VU * TU
SU == TU + 4
XU == TU \div 4
\* forward_speed * dt in px, for one SU and one 1/TU s, in 1/XU px
StepXU == (SU * XU) \div TU

\* ------------------------------------------------------------------ bounds
\* a session is followed for at most MaxTime/TU seconds
MaxTime == 80
\* perform_flap is followed while forward_speed stays <= MaxFlapSpeed px/s
MaxFlapSpeed == 1400

Abs(a) == IF a < 0 THEN -a ELSE a
Min(a, b) == IF a < b THEN a ELSE b
Max(a, b) == IF a > b THEN a ELSE b
\* Python int(): truncation toward zero of num/den, den > 0
Trunc(num, den) == IF num >= 0 THEN num \div den ELSE -((-num) \div den)

\* utils.clamp
clamp(value, lo, hi) == Max(lo, Min(hi, value))

\* ---------------------------------------------------------------- geometry
\* a/b <= c/d for a, c >= 0 and b, d > 0, by continued fractions: the same
\* answer as a*d <= c*b, computed without forming the products
RECURSIVE FracLeq(_, _, _, _)
FracLeq(a, b, c, d) ==
    LET qa == a \div b
        qc == c \div d
        ra == a % b
        rc == c % d
    IN  IF qa # qc THEN qa < qc
        ELSE IF ra = 0 THEN TRUE
        ELSE IF rc = 0 THEN FALSE
        ELSE FracLeq(d, rc, b, ra)

RECURSIVE GCD(_, _)
GCD(a, b) == IF b = 0 THEN a ELSE GCD(b, a % b)

RECURSIVE IsPowerOfTwo(_)
IsPowerOfTwo(n) == n = 1 \/ (n > 1 /\ n % 2 = 0 /\ IsPowerOfTwo(n \div 2))

\* t = dot / ab_len2 (line 30) is computed without rounding: the reduced
\* quotient has a power of two for its denominator
ExactQuotient(dot, ab_len2) == IsPowerOfTwo(ab_len2 \div GCD(dot, ab_len2))

\* utils.distance_point_to_segment(px, py, ax, ay, bx, by) <= r, r >= 0.
\* t = clamp(dot/ab_len2, 0, 1) picks endpoint A (dot <= 0), endpoint B
\* (dot >= ab_len2) or the foot of the perpendicular, whose squared distance
\* is |AP|^2 - dot^2/ab_len2.  The floats of lines 30-33 carry a relative
\* error near 1e-16, far below the gaps of the grid, so the comparison is
\* the exact one except where the exact distance equals r and the foot
\* (cx, cy) is rounded in both coordinates (an edge that is neither
\* horizontal nor vertical, t rounded): there math.hypot returns r or a
\* neighbour of r, and `up` says that it came out above r.  A point
\* farther than r from the segment's bounding box is settled first, which
\* keeps the products of the other cases small.
distance_point_to_segment_leq(px, py, ax, ay, bx, by, r, up) ==
    LET abx == bx - ax
        aby == by - ay
        apx == px - ax
        apy == py - ay
        ab_len2 == abx * abx + aby * aby
        dot == apx * abx + apy * aby
        ap2 == apx * apx + apy * apy
        bp2 == (px - bx) * (px - bx) + (py - by) * (py - by)
    IN  IF \/ px < Min(ax, bx) - r \/ px > Max(ax, bx) + r
           \/ py < Min(ay, by) - r \/ py > Max(ay, by) + r
        THEN FALSE
        ELSE IF ab_len2 = 0 THEN ap2 <= r * r
        ELSE IF dot <= 0 THEN ap2 <= r * r
        ELSE IF dot >= ab_len2 THEN bp2 <= r * r
        ELSE IF ap2 <= r * r THEN TRUE
        ELSE IF ~FracLeq(ap2 - r * r, dot, dot, ab_len2) THEN FALSE
        ELSE IF ~FracLeq(dot, ab_len2, ap2 - r * r, dot) THEN TRUE
        ELSE IF abx = 0 \/ aby = 0 \/ r = 0 \/ ExactQuotient(dot, ab_len2) THEN TRUE
        ELSE ~up

\* one edge of utils.point_in_polygon: does the edge (x1,y1)-(x2,y2) toggle
\* `inside`?  x_at_y = x1 + (py-y1)*(x2-x1)/(y2-y1+1e-9) > px.  With
\* n = (py-y1)*(x2-x1), d = y2-y1 # 0 and a = px-x1 on a grid far coarser than
\* 1e-9, n/(d+1e-9) > a is decided by the sign of n - a*d, and on a tie
\* (the point on the edge's line) by the 1e-9: the quotient is pulled toward
\* 0 for d > 0 and away from 0 for d < 0.
EdgeToggles(px, py, x1, y1, x2, y2) ==
    /\ (y1 > py) # (y2 > py)
    /\ LET n == (py - y1) * (x2 - x1)
           d == y2 - y1
           a == px - x1
       IN  IF d > 0 THEN (n - a * d > 0) \/ (n - a * d = 0 /\ a < 0)
                    ELSE (n - a * d < 0) \/ (n - a * d = 0 /\ a > 0)

\* poly[(i + 1) % n] for the 1-based index i
NextIdx(i, n) == (i % n) + 1

\* utils.point_in_polygon: parity of the toggling edges
RECURSIVE InsideAfter(_, _, _, _)
InsideAfter(px, py, poly, i) ==
    IF i = 0 THEN FALSE
    ELSE LET before == InsideAfter(px, py, poly, i - 1)
             a == poly[i]
             b == poly[NextIdx(i, Len(poly))]
         IN  IF EdgeToggles(px, py, a[1], a[2], b[1], b[2]) THEN ~before ELSE before

point_in_polygon(px, py, poly) == InsideAfter(px, py, poly, Len(poly))

\* the edge loop of utils.circle_polygon_collision from edge i on
RECURSIVE EdgeHitFrom(_, _, _, _, _, _)
EdgeHitFrom(cx, cy, r, poly, i, up) ==
    IF i > Len(poly) THEN FALSE
    ELSE LET a == poly[i]
             b == poly[NextIdx(i, Len(poly))]
         IN  IF distance_point_to_segment_leq(cx, cy, a[1], a[2], b[1], b[2], r, up)
             THEN TRUE
             ELSE EdgeHitFrom(cx, cy, r, poly, i + 1, up)

\* utils.circle_polygon_collision; up is the rounding of its distances
circle_polygon_collision(cx, cy, r, poly, up) ==
    IF point_in_polygon(cx, cy, poly) THEN TRUE
    ELSE EdgeHitFrom(cx, cy, r, poly, 1, up)

\* ------------------------------------------------------ obstacle generator
\* int(math.sin(t * math.pi) * draw) for t = i/5, draw in 2..6: sin(pi*i/5)
\* to four places (0.5878, 0.9511; sin(pi) is 1.2e-16 and truncates to 0)
SinPiFifths == <<0, 5878, 9511, 9511, 5878, 0>>
Bulge(i, draw) == (SinPiFifths[i + 1] * draw) \div 10000

\* the <<i, a, b>> of a spike's side interpolations (a a base x, b a tip x
\* minus or plus 1, over every tip_x and base_width _build_spikes can draw)
\* whose double (1 - i/5) * a + (i/5) * b falls just below the integer it
\* equals in exact arithmetic, so that int() returns one less; none of the
\* y interpolations (a = 0 or WINDOW_HEIGHT, b a tip inside a gap) does
RoundedBelow ==
    { <<3, 1, 36>>, <<3, 1, 41>>, <<3, 1, 46>>, <<3, 1, 51>>, <<3, 3, 48>>,
      <<3, 7, 57>>, <<3, 8, 48>>,
      <<4, 60, 20>>, <<4, 60, 25>>, <<4, 65, 20>>, <<4, 70, 20>>,
      <<4, 78, 43>>, <<4, 88, 43>>, <<4, 93, 43>> }

\* int((1 - t) * a + t * b) for t = i/5 and a, b >= 0
Lerp5(i, a, b) ==
    ((5 - i) * a + i * b) \div 5 - (IF <<i, a, b>> \in RoundedBelow THEN 1 ELSE 0)

side_segments == 5

\* _organic_spike with both sides running to tip_x itself
_organic_spike_pointed(tip_x, tip_y, base_y, base_width, bulge) ==
    LET half == base_width \div 2
        left_base_x == Max(0, tip_x - half)
        right_base_x == Min(OBSTACLE_WIDTH, tip_x + half)
        y(i) == Lerp5(i, base_y, tip_y)
        left_path == [k \in 1..6 |->
            <<Lerp5(k - 1, left_base_x, tip_x) - Bulge(k - 1, bulge[k]), y(k - 1)>>]
        right_path == [k \in 1..6 |->
            <<Lerp5(k - 1, right_base_x, tip_x) + Bulge(k - 1, bulge[k]), y(k - 1)>>]
        reversed_tail == [k \in 1..5 |-> right_path[7 - k]]
    IN  left_path \o reversed_tail \o <<right_path[1]>>

\* Obstacle._organic_spike; bulge[i + 1] is the rng.randint(2, 6) of level i
\* (one draw per level, used on both sides); both branches of `downward`
\* build the same vertex order
_organic_spike(tip_x, tip_y, base_y, base_width, bulge) ==
    LET half == base_width \div 2
        left_base_x == Max(0, tip_x - half)
        right_base_x == Min(OBSTACLE_WIDTH, tip_x + half)
        y(i) == Lerp5(i, base_y, tip_y)
        left_path == [k \in 1..(side_segments + 1) |->
            <<Lerp5(k - 1, left_base_x, tip_x - 1) - Bulge(k - 1, bulge[k]), y(k - 1)>>]
        right_path == [k \in 1..(side_segments + 1) |->
            <<Lerp5(k - 1, right_base_x, tip_x + 1) + Bulge(k - 1, bulge[k]), y(k - 1)>>]
        reversed_tail == [k \in 1..side_segments |-> right_path[side_segments + 2 - k]]
    IN  left_path \o reversed_tail \o <<right_path[1]>>

\* Obstacle.__init__ with Obstacle._build_spikes: x in px, the gap window and
\* the draws of the obstacle's own rng (tip_x, the tip's intrusion dy, the
\* base width and the bulges, for the stalactite and for the stalagmite).
\* id numbers the objects in creation order within a session.
Obstacle(id, x, gap_y, gap_h, rnd) ==
    [ id |-> id,
      x |-> x * XU,
      gap_y |-> gap_y,
      gap_h |-> gap_h,
      passed |-> FALSE,
      top_spikes |-> << _organic_spike(rnd.top.tip_x, gap_y + rnd.top.dy, 0,
                                       rnd.top.base_width, rnd.top.bulge) >>,
      bottom_spikes |-> << _organic_spike(rnd.bottom.tip_x,
                                          (gap_y + gap_h) - rnd.bottom.dy,
                                          WINDOW_HEIGHT,
                                          rnd.bottom.base_width, rnd.bottom.bulge) >> ]

\* Obstacle.update at the default speed, SCROLL_SPEED, whatever is passed
ObstacleUpdateDefaultSpeed(o, dt, scroll_speed) ==
    [o EXCEPT !.x = o.x - (SCROLL_SPEED \div SU) * dt * StepXU]

\* Obstacle.update(dt, scroll_speed): x -= speed * dt
ObstacleUpdate(o, dt, scroll_speed) == [o EXCEPT !.x = o.x - scroll_speed * dt * StepXU]

\* no obstacle ever counted as off screen
offscreenNever(o) == FALSE

\* an obstacle counted as off screen while still level with the bat
offscreenBeforePass(o) == o.x < BAT_X * XU

\* offscreen without the 20 px margin
offscreenAtEdge(o) == o.x + OBSTACLE_WIDTH * XU < 0

\* Obstacle.offscreen
offscreen(o) == o.x + OBSTACLE_WIDTH * XU < -(OFFSCREEN_MARGIN * XU)

\* Obstacle.world_polys: every spike polygon shifted by ox = int(self.x);
\* vertices on the 1/YU px grid of the bat's y
world_polys(o) ==
    LET ox == Trunc(o.x, XU)
        offset_poly(poly) == [k \in 1..Len(poly) |->
                                 <<(ox + poly[k][1]) * YU, poly[k][2] * YU>>]
        spikes == o.top_spikes \o o.bottom_spikes
    IN  [k \in 1..Len(spikes) |-> offset_poly(spikes[k])]

\* --------------------------------------------------------------------- bat
\* Bat.__init__(x, y): x, y in px
Bat(x, y) == [x |-> x, y |-> y * YU, vy |-> 0, alive |-> TRUE]

\* flap() as an impulse added to the current velocity
BatFlapAdditive(b) == IF b.alive THEN [b EXCEPT !.vy = b.vy + FLAP_IMPULSE * VU] ELSE b

\* Bat.flap
BatFlap(b) ==
    IF ~b.alive THEN b
    ELSE [b EXCEPT !.vy = FLAP_IMPULSE * VU]

\* Bat.update without gravity
BatUpdateWeightless(b, dt) ==
    IF ~b.alive THEN b
    ELSE [b EXCEPT !.y = b.y + b.vy * dt]

\* Bat.update without the clamp on vy
BatUpdateUnclamped(b, dt) ==
    IF ~b.alive THEN b
    ELSE LET vy == b.vy + (GRAVITY * VU * dt) \div TU
         IN  [b EXCEPT !.vy = vy, !.y = b.y + vy * dt]

\* Bat.update without the alive test
BatUpdateDead(b, dt) ==
    LET vy == clamp(b.vy + (GRAVITY * VU * dt) \div TU,
                    VY_FLOOR * VU, MAX_FALL_SPEED * VU)
    IN  [b EXCEPT !.vy = vy, !.y = b.y + vy * dt]

\* Bat.update(dt)
BatUpdate(b, dt) ==
    IF ~b.alive THEN b
    ELSE LET vy == clamp(b.vy + (GRAVITY * VU * dt) \div TU,
                         VY_FLOOR * VU, MAX_FALL_SPEED * VU)
         IN  [b EXCEPT !.vy = vy, !.y = b.y + vy * dt]

\* ------------------------------------------------------------------- state
\* Game: bat, obstacles, score, best, game_over, time_accum, forward_speed,
\* scroll_offset; bat_parts is the number of live BatPart objects (the
\* WaterDrop and BloodDrop lists are fed by random draws, are read by the
\* renderer only and are left out).  next_id numbers the Obstacle objects.
\* query is the argument/result record of a direct geometry call.
VARIABLES bat, obstacles, score, best, game_over, time_accum,
          forward_speed, scroll_offset, bat_parts, next_id, query

vars == <<bat, obstacles, score, best, game_over, time_accum,
          forward_speed, scroll_offset, bat_parts, next_id, query>>

\* the Game object as one value
Self == [ bat |-> bat, obstacles |-> obstacles, score |-> score, best |-> best,
          game_over |-> game_over, time_accum |-> time_accum,
          forward_speed |-> forward_speed, scroll_offset |-> scroll_offset,
          bat_parts |-> bat_parts, next_id |-> next_id ]

Becomes(g) ==
    /\ bat' = g.bat
    /\ obstacles' = g.obstacles
    /\ score' = g.score
    /\ best' = g.best
    /\ game_over' = g.game_over
    /\ time_accum' = g.time_accum
    /\ forward_speed' = g.forward_speed
    /\ scroll_offset' = g.scroll_offset
    /\ bat_parts' = g.bat_parts
    /\ next_id' = g.next_id

\* -------------------------------------------------------------- the draws
\* what random.randint and the obstacle's rng return, for two obstacles:
\* a low, tall gap and a high, short one
DrawLow ==
    [ gap_h |-> MAX_GAP,
      gap_y |-> WINDOW_HEIGHT - MARGIN_TOP_BOTTOM - MAX_GAP,
      top |-> [tip_x |-> 60, dy |-> 8, base_width |-> 90, bulge |-> <<2, 3, 4, 5, 6, 2>>],
      bottom |-> [tip_x |-> 41, dy |-> 31, base_width |-> 72, bulge |-> <<6, 5, 4, 3, 2, 6>>] ]

DrawHigh ==
    [ gap_h |-> MIN_GAP,
      gap_y |-> MARGIN_TOP_BOTTOM,
      top |-> [tip_x |-> 16, dy |-> 52, base_width |-> 108, bulge |-> <<4, 4, 4, 4, 4, 4>>],
      bottom |-> [tip_x |-> 104, dy |-> 8, base_width |-> 101, bulge |-> <<2, 6, 2, 6, 2, 6>>] ]

Draws == {DrawLow, DrawHigh}

\* the draws of the six pre-warmed obstacles of a session
PrewarmDraws ==
    { <<DrawLow, DrawLow, DrawLow, DrawLow, DrawLow, DrawLow>>,
      <<DrawLow, DrawHigh, DrawLow, DrawLow, DrawHigh, DrawLow>>,
      <<DrawHigh, DrawLow, DrawLow, DrawHigh, DrawLow, DrawHigh>> }

\* frame deltas, in 1/TU s
DtSet == {5, 20}

\* ------------------------------------------------------------- operations
\* reset starting at the legacy scroll speed instead of SCROLL_SPEED * 0.0
reset_at_scroll_speed(rnd) ==
    [ bat |-> Bat(BAT_X, WINDOW_HEIGHT \div 2),
      obstacles |-> [k \in 1..PREWARM_COUNT |->
                        Obstacle(k, WINDOW_WIDTH + PREWARM_AHEAD + (k - 1) * OBSTACLE_SPACING,
                                 rnd[k].gap_y, rnd[k].gap_h, rnd[k])],
      score |-> 0,
      best |-> 0,
      game_over |-> FALSE,
      time_accum |-> 0,
      forward_speed |-> SCROLL_SPEED \div SU,
      scroll_offset |-> 0,
      bat_parts |-> 0,
      next_id |-> PREWARM_COUNT + 1 ]

\* Game.reset: the session it builds from the six draws
reset(rnd) ==
    [ bat |-> Bat(BAT_X, WINDOW_HEIGHT \div 2),
      obstacles |-> [k \in 1..PREWARM_COUNT |->
                        Obstacle(k, WINDOW_WIDTH + PREWARM_AHEAD + (k - 1) * OBSTACLE_SPACING,
                                 rnd[k].gap_y, rnd[k].gap_h, rnd[k])],
      score |-> 0,
      best |-> 0,
      game_over |-> FALSE,
      time_accum |-> 0,
      forward_speed |-> 0,
      scroll_offset |-> 0,
      bat_parts |-> 0,
      next_id |-> PREWARM_COUNT + 1 ]

\* every session a reset can build from the draws followed
FreshSessions == { reset(rnd) : rnd \in PrewarmDraws }

\* Game.spawn_obstacle
spawn_obstacle(g, rnd) ==
    [g EXCEPT !.obstacles = Append(g.obstacles,
                  Obstacle(g.next_id, WINDOW_WIDTH + SPAWN_AHEAD, rnd.gap_y, rnd.gap_h, rnd)),
              !.next_id = g.next_id + 1]

\* trigger_game_over without its guard
trigger_game_over_unguarded(g) ==
    [g EXCEPT !.game_over = TRUE,
              !.bat.alive = FALSE,
              !.best = Max(g.best, g.score),
              !.bat_parts = BAT_PART_COUNT]

\* trigger_game_over that moves the score into best
trigger_game_over_clears_score(g) ==
    IF ~g.game_over
    THEN [g EXCEPT !.game_over = TRUE,
                   !.bat.alive = FALSE,
                   !.best = Max(g.best, g.score),
                   !.score = 0,
                   !.bat_parts = BAT_PART_COUNT]
    ELSE g

\* trigger_game_over that leaves the bat alive
trigger_game_over_keeps_alive(g) ==
    IF ~g.game_over
    THEN [g EXCEPT !.game_over = TRUE,
                   !.best = Max(g.best, g.score),
                   !.bat_parts = BAT_PART_COUNT]
    ELSE g

\* trigger_game_over that kills the bat and leaves the flag alone
trigger_game_over_keeps_flag(g) ==
    IF ~g.game_over
    THEN [g EXCEPT !.bat.alive = FALSE,
                   !.best = Max(g.best, g.score),
                   !.bat_parts = BAT_PART_COUNT]
    ELSE g

\* Game.trigger_game_over; Bat.break_apart returns BAT_PART_COUNT parts
trigger_game_over(g) ==
    IF ~g.game_over
    THEN [g EXCEPT !.game_over = TRUE,
                   !.bat.alive = FALSE,
                   !.best = Max(g.best, g.score),
                   !.bat_parts = BAT_PART_COUNT]
    ELSE g

\* Game.perform_flap
perform_flap(g) ==
    [g EXCEPT !.bat = BatFlap(g.bat),
              !.forward_speed = g.forward_speed + FORWARD_THRUST \div SU]

\* forward_speed - forward_speed * FORWARD_DRAG * dt, as a numerator over
\* DragDen, and whether it lies on the forward_speed grid
DragDen == 10 * TU
DragNum(fs, dt) == fs * (DragDen - FORWARD_DRAG10 * dt)
OnGrid(fs, dt) == DragNum(fs, dt) % DragDen = 0

\* the forward speed clamped from below only
ClampedForwardSpeedLowOnly(fs, dt) == Max(0, DragNum(fs, dt) \div DragDen)

\* the forward speed clamped from above only
ClampedForwardSpeedHighOnly(fs, dt) ==
    Min(DragNum(fs, dt) \div DragDen, (FORWARD_THRUST + SCROLL_SPEED) \div SU)

\* the clamped forward speed of Game.update lines 181-183
ClampedForwardSpeed(fs, dt) ==
    Max(0, Min(DragNum(fs, dt) \div DragDen, (FORWARD_THRUST + SCROLL_SPEED) \div SU))

\* spacing of Game.update line 189, as a numerator over SpacingDen:
\* max(OBSTACLE_SPACING * 0.8, OBSTACLE_SPACING * min(1.5, (fs + 1) / (SCROLL_SPEED + 1)))
SpacingDen == 10 * (SCROLL_SPEED + 1)
SpacingNum(fs) ==
    Max(OBSTACLE_SPACING * 8 * (SCROLL_SPEED + 1),
        OBSTACLE_SPACING * Min(15 * (SCROLL_SPEED + 1), 10 * (fs * SU + 1)))

\* a spawn in every tick
SpawnDueEveryTick(obs, fs) == TRUE

\* the spawn test with the fixed spacing of the static-scroll variant
SpawnDueFixedSpacing(obs, fs) ==
    \/ Len(obs) = 0
    \/ obs[Len(obs)].x < (WINDOW_WIDTH - OBSTACLE_SPACING) * XU

\* line 190: len(obstacles) == 0 or obstacles[-1].x < WINDOW_WIDTH - spacing
\* (x/XU < W - num/den  <=>  x * den < (W * den - num) * XU)
SpawnDue(obs, fs) ==
    \/ Len(obs) = 0
    \/ obs[Len(obs)].x * SpacingDen < (WINDOW_WIDTH * SpacingDen - SpacingNum(fs)) * XU

\* Scores with the passed flag not consulted
ScoresIgnoringFlag(o, b) == o.x + OBSTACLE_WIDTH * XU < b.x * XU

\* lines 196-198 for one obstacle after its advance
Scores(o, b) == ~o.passed /\ o.x + OBSTACLE_WIDTH * XU < b.x * XU

\* lines 194-198: every obstacle advanced, then scored
AdvanceAndScore(obs, b, dt, fs) ==
    [k \in 1..Len(obs) |->
        LET o == ObstacleUpdate(obs[k], dt, fs)
        IN  IF Scores(o, b) THEN [o EXCEPT !.passed = TRUE] ELSE o]

\* number of obstacles the loop of lines 194-198 scores
ScoredCount(obs, b, dt, fs) ==
    Cardinality({k \in 1..Len(obs) : Scores(ObstacleUpdate(obs[k], dt, fs), b)})

\* the bounds test without its floor half
OutOfBoundsCeilingOnly(b) == b.y - BAT_BODY_RADIUS * YU <= 0

\* line 209
OutOfBounds(b) ==
    \/ b.y - BAT_BODY_RADIUS * YU <= 0
    \/ b.y + BAT_BODY_RADIUS * YU >= WINDOW_HEIGHT * YU

\* the scan skipping every obstacle whose center is more than 50 px away
CulledNear(o, b) ==
    Abs(2 * o.x + OBSTACLE_WIDTH * XU - 2 * b.x * XU) > 2 * 50 * XU

\* line 218: the obstacle is skipped by the collision scan
Culled(o, b) ==
    Abs(2 * o.x + OBSTACLE_WIDTH * XU - 2 * b.x * XU) > 2 * CULL_DIST * XU

\* lines 221-225
Collides(o, b, up) ==
    \E k \in 1..Len(world_polys(o)) :
        circle_polygon_collision(b.x * YU, b.y, BAT_BODY_RADIUS * YU, world_polys(o)[k], up)

\* a scan that tests only the obstacles not yet passed
ObstacleHitUnpassedOnly(obs, b, up) ==
    \E k \in 1..Len(obs) : ~obs[k].passed /\ ~Culled(obs[k], b) /\ Collides(obs[k], b, up)

\* lines 217-249: some scanned obstacle collides
ObstacleHit(obs, b, up) ==
    \E k \in 1..Len(obs) : ~Culled(obs[k], b) /\ Collides(obs[k], b, up)

\* lines 274-285: each part is dropped once off screen; gone is how many
\* leave in this call
UpdateParts(g, gone) == [g EXCEPT !.bat_parts = g.bat_parts - gone]

\* the core never frozen
NeverFrozen(g) == FALSE

\* line 177: `if not self.game_over` skips the core of the tick
Frozen(g) == g.game_over

\* Game.update(dt): rnd is the draw of a spawned obstacle, gone the number
\* of bat parts leaving the screen
update(g, dt, rnd, gone, up) ==
    LET g0 == [g EXCEPT !.time_accum = g.time_accum + dt]
        b1 == BatUpdate(g0.bat, dt)
        fs == ClampedForwardSpeed(g0.forward_speed, dt)
        g1 == [g0 EXCEPT !.bat = b1,
                         !.forward_speed = fs,
                         !.scroll_offset = g0.scroll_offset + fs * dt * StepXU]
        g2 == IF SpawnDue(g1.obstacles, fs) THEN spawn_obstacle(g1, rnd) ELSE g1
        g3 == [g2 EXCEPT !.obstacles = AdvanceAndScore(g2.obstacles, b1, dt, fs),
                         !.score = g2.score + ScoredCount(g2.obstacles, b1, dt, fs)]
        g4 == [g3 EXCEPT !.obstacles = SelectSeq(g3.obstacles, LAMBDA o : ~offscreen(o))]
        g5 == IF OutOfBounds(g4.bat) THEN trigger_game_over(g4) ELSE g4
        g6 == IF ObstacleHit(g5.obstacles, g5.bat, up) THEN trigger_game_over(g5) ELSE g5
        core == IF ~Frozen(g) THEN g6 ELSE g0
    IN  UpdateParts(core, IF gone <= core.bat_parts THEN gone ELSE 0)

\* ----------------------------------------------------------------- actions
NoQuery ==
    [cx |-> 0, cy |-> 0, r |-> 0, poly |-> <<>>, up |-> FALSE, result |-> FALSE, done |-> FALSE]

Starts(g) ==
    /\ bat = g.bat
    /\ obstacles = g.obstacles
    /\ score = g.score
    /\ best = g.best
    /\ game_over = g.game_over
    /\ time_accum = g.time_accum
    /\ forward_speed = g.forward_speed
    /\ scroll_offset = g.scroll_offset
    /\ bat_parts = g.bat_parts
    /\ next_id = g.next_id

\* Game.__init__ ends in self.reset()
Init ==
    /\ \E g \in FreshSessions : Starts(g)
    /\ query = NoQuery

Reset ==
    /\ \E g \in FreshSessions : Becomes(g)
    /\ UNCHANGED query

PerformFlap ==
    /\ forward_speed * SU + FORWARD_THRUST <= MaxFlapSpeed
    /\ Becomes(perform_flap(Self))
    /\ UNCHANGED query

Update ==
    /\ \E dt \in DtSet, rnd \in Draws, gone \in {0, BAT_PART_COUNT}, up \in BOOLEAN :
          /\ time_accum + dt <= MaxTime
          /\ game_over \/ OnGrid(forward_speed, dt)
          /\ Becomes(update(Self, dt, rnd, gone, up))
    /\ UNCHANGED query

TriggerGameOver ==
    /\ Becomes(trigger_game_over(Self))
    /\ UNCHANGED query

Next == Reset \/ PerformFlap \/ Update \/ TriggerGameOver

Spec == Init /\ [][Next]_vars

\* ------------------------------------------------- a wider range of frames
\* frame deltas of the wider specification, in 1/TU s: an empty frame, a
\* short one, the usual one and a long one
DtWide == {0, 1, 5, 20}
\* the wider specification follows a session for at most MaxTimeWide/TU s
MaxTimeWide == 10

\* the drag step needs no rounding: its result is on the grid, or it is
\* above the upper clamp bound and replaced by it
OnGridOrClamped(fs, dt) ==
    \/ OnGrid(fs, dt)
    \/ DragNum(fs, dt) >= ((FORWARD_THRUST + SCROLL_SPEED) \div SU) * DragDen

UpdateWide ==
    /\ \E dt \in DtWide, rnd \in Draws, gone \in {0, BAT_PART_COUNT}, up \in BOOLEAN :
          /\ time_accum + dt <= MaxTimeWide
          /\ game_over \/ OnGridOrClamped(forward_speed, dt)
          /\ Becomes(update(Self, dt, rnd, gone, up))
    /\ UNCHANGED query

NextWide == Reset \/ PerformFlap \/ UpdateWide \/ TriggerGameOver

SpecWide == Init /\ [][NextWide]_vars

\* ------------------------------------------------------------ long sessions
\* the long specification follows a session, flaps and frames only, for at
\* most MaxTimeLong/TU s and until the run is over: long enough for
\* obstacles to be spawned, passed and culled
MaxTimeLong == 115

UpdateLong ==
    /\ ~game_over
    /\ \E dt \in DtSet, rnd \in Draws, up \in BOOLEAN :
          /\ time_accum + dt <= MaxTimeLong
          /\ OnGrid(forward_speed, dt)
          /\ Becomes(update(Self, dt, rnd, 0, up))
    /\ UNCHANGED query

NextLong == PerformFlap \/ UpdateLong

SpecLong == Init /\ [][NextLong]_vars

\* ------------------------------------------------------- the bat on its own
\* Bat.flap and Bat.update called on bats of any state, dead ones included
BatYs == {BAT_BODY_RADIUS, WINDOW_HEIGHT \div 2, WINDOW_HEIGHT - BAT_BODY_RADIUS}
BatVys == {FLAP_IMPULSE, 0, MAX_FALL_SPEED}

\* the session around the bat, which these calls never touch
AnySession == reset([k \in 1..PREWARM_COUNT |-> DrawLow])

InitBat ==
    /\ \E y \in BatYs, v \in BatVys, a \in BOOLEAN :
          Starts([AnySession EXCEPT
                     !.bat = [x |-> BAT_X, y |-> y * YU, vy |-> v * VU, alive |-> a]])
    /\ query = NoQuery

\* query.done records that a call was made
BatFlapCall ==
    /\ bat' = BatFlap(bat)
    /\ query' = [NoQuery EXCEPT !.done = TRUE]
    /\ UNCHANGED <<obstacles, score, best, game_over, time_accum, forward_speed,
                   scroll_offset, bat_parts, next_id>>

BatUpdateCall ==
    /\ \E dt \in DtWide :
          /\ bat' = BatUpdate(bat, dt)
          /\ bat'.y >= 0
          /\ bat'.y <= WINDOW_HEIGHT * YU
    /\ query' = [NoQuery EXCEPT !.done = TRUE]
    /\ UNCHANGED <<obstacles, score, best, game_over, time_accum, forward_speed,
                   scroll_offset, bat_parts, next_id>>

NextBat == BatFlapCall \/ BatUpdateCall

SpecBat == InitBat /\ [][NextBat]_vars

\* ------------------------------------------------- the collision test alone
\* polygons of the queries: a square, a right triangle whose hypotenuse is
\* the closing edge, and an L-shaped (concave) hexagon
GeomSquare == << <<0, 0>>, <<10, 0>>, <<10, 10>>, <<0, 10>> >>
GeomTriangle == << <<8, 0>>, <<0, 0>>, <<0, 6>> >>
GeomEll == << <<0, 0>>, <<10, 0>>, <<10, 4>>, <<4, 4>>, <<4, 10>>, <<0, 10>> >>
GeomPolys == {GeomSquare, GeomTriangle, GeomEll}
\* centers lie up to GeomMargin outside the polygons' bounding square
GeomMargin == 6
GeomCoords == (0 - GeomMargin)..(10 + GeomMargin)
GeomRadii == {0, 1, 5}

\* the arguments of one call are drawn, its result is still to come
InitGeom ==
    /\ Starts(AnySession)
    /\ \E poly \in GeomPolys, cx \in GeomCoords, cy \in GeomCoords, r \in GeomRadii,
          up \in BOOLEAN :
          query = [cx |-> cx, cy |-> cy, r |-> r, poly |-> poly, up |-> up,
                   result |-> FALSE, done |-> FALSE]

\* the call returns
GeomQuery ==
    /\ ~query.done
    /\ query' = [query EXCEPT
                    !.result = circle_polygon_collision(query.cx, query.cy, query.r,
                                                        query.poly, query.up),
                    !.done = TRUE]
    /\ UNCHANGED <<bat, obstacles, score, best, game_over, time_accum, forward_speed,
                   scroll_offset, bat_parts, next_id>>

NextGeom == GeomQuery

SpecGeom == InitGeom /\ [][NextGeom]_vars

\* ------------------------------------------------ the gap window's draws
\* gap_h = random.randint(MIN_GAP, MAX_GAP)
GapHeights == MIN_GAP..MAX_GAP

\* the range of gap_y without the room for the gap below it
GapYsIgnoringHeight(gap_h) == MARGIN_TOP_BOTTOM..(WINDOW_HEIGHT - MARGIN_TOP_BOTTOM)

\* gap_y = random.randint(MARGIN_TOP_BOTTOM, WINDOW_HEIGHT - MARGIN_TOP_BOTTOM - gap_h)
GapYs(gap_h) == MARGIN_TOP_BOTTOM..(WINDOW_HEIGHT - MARGIN_TOP_BOTTOM - gap_h)

\* every GapStride-th gap height from MIN_GAP on, with the lowest and the
\* highest gap_y it admits; the spikes' draws are DrawLow's
GapStride == 20
GapDraws ==
    { [DrawLow EXCEPT !.gap_h = h, !.gap_y = y] :
         <<h, y>> \in { hy \in GapHeights \X (0..WINDOW_HEIGHT) :
                          /\ (hy[1] - MIN_GAP) % GapStride = 0
                          /\ hy[2] \in GapYs(hy[1])
                          /\ (hy[2] - 1 \notin GapYs(hy[1]) \/ hy[2] + 1 \notin GapYs(hy[1])) } }

\* Game() with reset()'s six obstacles drawn alike
InitGap ==
    /\ \E d \in GapDraws : Starts(reset([k \in 1..PREWARM_COUNT |-> d]))
    /\ query = NoQuery

\* one call of spawn_obstacle() on the fresh session
SpawnObstacle ==
    /\ next_id = PREWARM_COUNT + 1
    /\ time_accum = 0
    /\ \E d \in GapDraws : Becomes(spawn_obstacle(Self, d))
    /\ UNCHANGED query

MaxTimeGap == 5
UpdateGap ==
    /\ \E dt \in DtWide, rnd \in Draws, up \in BOOLEAN :
          /\ time_accum + dt <= MaxTimeGap
          /\ OnGridOrClamped(forward_speed, dt)
          /\ Becomes(update(Self, dt, rnd, 0, up))
    /\ UNCHANGED query

NextGap == SpawnObstacle \/ PerformFlap \/ UpdateGap

SpecGap == InitGap /\ [][NextGap]_vars

\* ------------------------------------------------------ the spikes' draws
\* tip_x = rng.randint(16, OBSTACLE_WIDTH - 16)
TipXs == 16..(OBSTACLE_WIDTH - 16)

\* a tip reaching up to 120 px into the gap
TipDysDeep == 8..120

\* the tip's intrusion into the gap: rng.randint(8, 52)
TipDys == 8..52

\* base_width = rng.randint(int(OBSTACLE_WIDTH * 0.6), int(OBSTACLE_WIDTH * 0.9))
BaseWidths == ((OBSTACLE_WIDTH * 6) \div 10)..((OBSTACLE_WIDTH * 9) \div 10)

\* rng.randint(2, 6) of a bulge
BulgeDraws == 2..6

\* the lowest and the highest element of a set of integers
Ends(S) == { n \in S : n - 1 \notin S \/ n + 1 \notin S }

\* every tip_x and base_width, with the shallowest and the deepest tip and
\* the bulges at their ends, level by level alike or alternating
SpikeDraws ==
    { [tip_x |-> t, dy |-> d, base_width |-> w,
       bulge |-> [k \in 1..(side_segments + 1) |-> IF k % 2 = 1 THEN odd ELSE even]] :
         t \in TipXs, d \in Ends(TipDys), w \in BaseWidths,
         odd \in Ends(BulgeDraws), even \in Ends(BulgeDraws) }

InitSpike ==
    /\ Starts(AnySession)
    /\ query = NoQuery

\* one call of spawn_obstacle() on the fresh session, its stalactite and
\* its stalagmite drawn alike
SpawnSpikes ==
    /\ next_id = PREWARM_COUNT + 1
    /\ \E d \in Draws, sp \in SpikeDraws :
          Becomes(spawn_obstacle(Self, [d EXCEPT !.top = sp, !.bottom = sp]))
    /\ UNCHANGED query

NextSpike == SpawnSpikes

SpecSpike == InitSpike /\ [][NextSpike]_vars

\* ------------------------------------------------- a player who lets go
\* flaps come only in the first MaxFlapTime/TU s of the session; frames keep
\* coming, each of a length in DtSet, as long as the run is on
MaxFlapTime == 80
MaxTimeFall == 140

PerformFlapEarly ==
    /\ time_accum < MaxFlapTime
    /\ PerformFlap

UpdateFall ==
    /\ ~game_over
    /\ \E dt \in DtSet, rnd \in Draws, up \in BOOLEAN :
          /\ time_accum + dt <= MaxTimeFall
          /\ OnGrid(forward_speed, dt)
          /\ Becomes(update(Self, dt, rnd, 0, up))
    /\ UNCHANGED query

NextFall == PerformFlapEarly \/ UpdateFall

\* run(): the main loop calls update(dt) in every frame, and update adds
\* dt to time_accum; a running session does not go without a frame forever
Frame == ~game_over /\ time_accum' \in { time_accum + dt : dt \in DtSet }

SpecFall == Init /\ [][NextFall]_vars /\ WF_time_accum(Frame)

\* ================================================================== claims
Range(seq) == {seq[k] : k \in 1..Len(seq)}
Ids(seq) == {seq[k].id : k \in 1..Len(seq)}

\* a step that stays in the session: reset is the only operation that
\* yields a fresh session
InSession == Self' \notin FreshSessions

\* the farthest the obstacles move in one tick of DtSet, in 1/XU px
\* (forward_speed <= FORWARD_THRUST + SCROLL_SPEED after the clamp)
MaxAdvance == ((FORWARD_THRUST + SCROLL_SPEED) \div SU) * 5 * StepXU

\* ---------------------------------------------------------------------- C1
\* obstacles whose passed flag is set by the step: in the list after it
\* and passed, but not passed before (or not in the list before), or taken
\* out of the list by the step while still unpassed
NewlyPassed ==
    { o.id : o \in { p \in Range(obstacles') :
                       /\ p.passed
                       /\ \A q \in Range(obstacles) : q.id = p.id => ~q.passed } }
    \cup { q.id : q \in { p \in Range(obstacles) :
                            ~p.passed /\ p.id \notin Ids(obstacles') } }

\* C1: scoring is exactly-once per obstacle.  In every step of a session a
\* passed flag never goes back to false; after the step an obstacle is
\* flagged exactly if its right edge is strictly left of the bat's x (so the
\* flag is set in the first tick whose advance brings it there); and score
\* grows by exactly the number of obstacles flagged in this step, so a
\* flagged obstacle is never counted again.
C1_ScoredExactlyOnce ==
    [][ InSession =>
          /\ \A q \in Range(obstacles), p \in Range(obstacles') :
                (q.id = p.id /\ q.passed) => p.passed
          /\ \A p \in Range(obstacles') :
                p.passed <=> (p.x + OBSTACLE_WIDTH * XU < bat'.x * XU)
          /\ score' = score + Cardinality(NewlyPassed) ]_vars

\* C1 witness: the run goes on with one point, for an obstacle that was
\* flagged in an earlier tick (it is more than one tick's advance past the
\* bat's x)
C1_Witness ==
    /\ score = 1
    /\ ~game_over
    /\ \E p \in Range(obstacles) :
          /\ p.passed
          /\ p.x + OBSTACLE_WIDTH * XU < BAT_X * XU - MaxAdvance

\* ---------------------------------------------------------------------- C2
\* C2: the game-over transition is idempotent.  A step that ends the run
\* leaves game_over set, the bat not alive and best = max(best, score),
\* with the bat parts created (all BAT_PART_COUNT of them when no tick ran
\* over them in the same step); in a session that is over, a step that is
\* no tick (a further trigger_game_over among them) changes neither best
\* nor bat_parts nor anything else but forward_speed; and a second call
\* right after a first one (two hits in one tick) changes nothing.
C2_GameOverIdempotent ==
    [][ /\ (InSession /\ ~game_over /\ game_over') =>
              /\ ~bat'.alive
              /\ best' = Max(best, score')
              /\ bat_parts' <= BAT_PART_COUNT
              /\ (time_accum' = time_accum => bat_parts' = BAT_PART_COUNT)
        /\ (InSession /\ game_over /\ time_accum' = time_accum) =>
              UNCHANGED <<bat, obstacles, score, best, game_over, scroll_offset,
                          bat_parts, next_id>>
        /\ trigger_game_over(trigger_game_over(Self)) = trigger_game_over(Self) ]_vars

\* C2 witness: a run that ended with a point, whose bat parts have since
\* left the screen (a repeated transition would create them again and
\* would be seen)
C2_Witness ==
    /\ game_over
    /\ ~bat.alive
    /\ best >= 1
    /\ bat_parts = 0

\* ---------------------------------------------------------------------- C3
\* C3 (as claimed): best is a high-water mark across resets, it never
\* decreases in any step, reset included.
C3_BestNeverDecreases == [][best' >= best]_vars

\* ---------------------------------------------------------------------- C4
\* steps that only reset() can take: time, or the run's end, or score is
\* rolled back, or the forward speed drops while no time passes
RolledBack ==
    \/ time_accum' < time_accum
    \/ game_over /\ ~game_over'
    \/ score' < score
    \/ forward_speed' < forward_speed /\ time_accum' = time_accum

\* C4: reset() from any reachable state yields the initial session state:
\* not over, score 0, six unpassed obstacles, forward_speed 0,
\* scroll_offset 0 and a live bat at (BAT_X, WINDOW_HEIGHT // 2), vy 0.
C4_ResetYieldsInitial ==
    [][ RolledBack =>
          /\ ~game_over'
          /\ score' = 0
          /\ Len(obstacles') = 6
          /\ \A p \in Range(obstacles') : ~p.passed
          /\ forward_speed' = 0
          /\ scroll_offset' = 0
          /\ time_accum' = 0
          /\ bat' = [x |-> BAT_X, y |-> (WINDOW_HEIGHT \div 2) * YU,
                     vy |-> 0, alive |-> TRUE] ]_vars

\* C4 witness: a state in which reset() has everything to undo: the run is
\* over after a point was scored, an obstacle is passed, one was culled,
\* the bat has moved and the world has scrolled
C4_Witness ==
    /\ game_over
    /\ score >= 1
    /\ Len(obstacles) < 6
    /\ \E p \in Range(obstacles) : p.passed
    /\ forward_speed > 0
    /\ scroll_offset > 0
    /\ bat.vy # 0
    /\ bat.y # (WINDOW_HEIGHT \div 2) * YU

\* ---------------------------------------------------------------------- C5
\* C5: world bounds.  A bat whose body circle has left [0, WINDOW_HEIGHT]
\* is found only with the run over and the bat not alive (the tick that
\* moved it there ended the run), so while the run is on the body lies
\* strictly inside the world.
C5_BoundsEndTheRun ==
    /\ (bat.y - BAT_BODY_RADIUS * YU < 0 \/ bat.y + BAT_BODY_RADIUS * YU > WINDOW_HEIGHT * YU)
          => (game_over /\ ~bat.alive)
    /\ ~game_over =>
          (BAT_BODY_RADIUS * YU < bat.y /\ bat.y < (WINDOW_HEIGHT - BAT_BODY_RADIUS) * YU)

\* C5 witness: a run ended by the floor alone (no obstacle touches the bat)
C5_Witness ==
    /\ game_over
    /\ ~bat.alive
    /\ bat.y + BAT_BODY_RADIUS * YU > WINDOW_HEIGHT * YU
    /\ ~ObstacleHit(obstacles, bat, FALSE)

\* ---------------------------------------------------------------------- C6
\* C6: a dead bat is inert: Bat.flap() and Bat.update(dt) on a bat with
\* alive = false leave vy, y and x as they are, for every dt.
C6_DeadBatInert ==
    [][ ~bat.alive => (bat'.vy = bat.vy /\ bat'.y = bat.y /\ bat'.x = bat.x) ]_vars

\* C6 witness: a dead bat in mid-air, after a call, with a speed that
\* neither flap() nor gravity would leave alone
C6_Witness ==
    /\ query.done
    /\ ~bat.alive
    /\ bat.vy = 0
    /\ bat.y = (WINDOW_HEIGHT \div 2) * YU

\* ---------------------------------------------------------------------- C7
\* C7: game over freezes the core.  A tick taken while the run is over
\* changes nothing but time_accum and the particle list: bat, obstacles
\* (their x and passed flags, no spawn, no cull), score, best,
\* forward_speed and scroll_offset stay as they are.
C7_GameOverFreezesCore ==
    [][ (game_over /\ InSession /\ time_accum' # time_accum) =>
          UNCHANGED <<bat, obstacles, score, best, forward_speed, scroll_offset,
                      game_over, next_id>> ]_vars

\* C7 witness: a run ended by a direct trigger_game_over() (the bat is in
\* bounds and touches nothing) with the world still in motion, after a
\* tick that took the bat parts off the screen
C7_Witness ==
    /\ game_over
    /\ ~OutOfBounds(bat)
    /\ ~ObstacleHit(obstacles, bat, FALSE)
    /\ forward_speed > 0
    /\ time_accum > 0
    /\ bat_parts = 0

\* ---------------------------------------------------------------------- C8
\* squared distance from P to the segment A-B is at most r^2, by the
\* region of the projection and, for the foot of the perpendicular, by
\* cross^2 <= r^2 * |AB|^2
SegmentWithin(px, py, a, b, r) ==
    LET abx == b[1] - a[1]
        aby == b[2] - a[2]
        apx == px - a[1]
        apy == py - a[2]
        len2 == abx * abx + aby * aby
        dot == apx * abx + apy * aby
        cross == apx * aby - apy * abx
    IN  IF dot <= 0 THEN apx * apx + apy * apy <= r * r
        ELSE IF dot >= len2
             THEN (px - b[1]) * (px - b[1]) + (py - b[2]) * (py - b[2]) <= r * r
             ELSE cross * cross <= r * r * len2

\* the edges of a polygon, closing edge included, as pairs of vertices
EdgesOf(poly) ==
    { <<poly[i], poly[IF i = Len(poly) THEN 1 ELSE i + 1]>> : i \in 1..Len(poly) }

\* the ray-cast parity: an odd number of edges toggles
OddCrossings(px, py, poly) ==
    Cardinality({ i \in 1..Len(poly) :
        LET a == poly[i]
            b == poly[IF i = Len(poly) THEN 1 ELSE i + 1]
        IN  EdgeToggles(px, py, a[1], a[2], b[1], b[2]) }) % 2 = 1

\* C8 (as claimed): circle_polygon_collision(cx, cy, r, poly) is true
\* exactly when the center is inside poly by the ray-cast parity test or
\* some edge of poly, the closing edge included, is at distance <= r from
\* the center; a circle tangent to an edge (distance = r) with its center
\* outside collides, a center outside and farther than r from every edge
\* does not.
C8_CollisionIsInsideOrNearEdge ==
    query.done =>
        (query.result <=>
            \/ OddCrossings(query.cx, query.cy, query.poly)
            \/ \E e \in EdgesOf(query.poly) :
                  SegmentWithin(query.cx, query.cy, e[1], e[2], query.r))

\* ---------------------------------------------------------------------- C9
\* a step of Game.update: time passes, or the forward speed drops
UpdateStep == InSession /\ (time_accum' # time_accum \/ forward_speed' < forward_speed)

\* C9: forward_speed is clamped to [0, FORWARD_THRUST + SCROLL_SPEED] at
\* the end of every update taken while the run is on, whatever dt and
\* however many flaps came before, and scroll_offset and every obstacle
\* (a freshly spawned one too) advance by the clamped speed times dt.
C9_ForwardSpeedClamped ==
    [][ (UpdateStep /\ ~game_over) =>
          LET adv == forward_speed' * (time_accum' - time_accum) * StepXU
          IN  /\ 0 <= forward_speed'
              /\ forward_speed' * SU <= FORWARD_THRUST + SCROLL_SPEED
              /\ scroll_offset' = scroll_offset + adv
              /\ \A p \in Range(obstacles') :
                    IF p.id \in Ids(obstacles)
                    THEN \A q \in Range(obstacles) : q.id = p.id => p.x = q.x - adv
                    ELSE p.x = (WINDOW_WIDTH + SPAWN_AHEAD) * XU - adv ]_vars

\* C9 witness: a running session whose forward speed sits on the upper
\* bound, where only the clamp can have put it, with the world scrolled
C9_Witness ==
    /\ ~game_over
    /\ forward_speed * SU = FORWARD_THRUST + SCROLL_SPEED
    /\ scroll_offset > 0

\* --------------------------------------------------------------------- C10
\* C10: the bat's downward speed is capped: vy <= MAX_FALL_SPEED in every
\* reachable state, and every tick of a live bat sets
\* vy = min(vy + GRAVITY * dt, MAX_FALL_SPEED) and moves y by that capped
\* vy times dt.
C10_FallSpeedCapped ==
    /\ [](bat.vy <= MAX_FALL_SPEED * VU)
    /\ [][ (InSession /\ bat.alive /\ time_accum' # time_accum) =>
             LET dt == time_accum' - time_accum
             IN  /\ bat'.vy = Min(bat.vy + (GRAVITY * VU * dt) \div TU, MAX_FALL_SPEED * VU)
                 /\ bat'.y = bat.y + bat'.vy * dt ]_vars

\* C10 witness: the cap was applied (gravity alone would have carried vy
\* past it)
C10_Witness == bat.vy = MAX_FALL_SPEED * VU

\* --------------------------------------------------------------------- C11
\* C11: dead is terminal until reset.  From a session that is over, every
\* step either leaves game_over set and the bat not alive, or is a reset()
\* to a fresh session; no update and no perform_flap revives the bat.
C11_DeadUntilReset ==
    [][ game_over =>
          /\ ~bat.alive
          /\ \/ game_over' /\ ~bat'.alive
             \/ Self' \in FreshSessions ]_vars

\* C11 witness: a session that is over, after flaps (the forward speed is
\* above what any tick leaves) and after a tick (the parts are gone)
C11_Witness ==
    /\ game_over
    /\ ~bat.alive
    /\ forward_speed * SU > FORWARD_THRUST + SCROLL_SPEED
    /\ time_accum > 0
    /\ bat_parts = 0

\* --------------------------------------------------------------------- C12
\* C12: score never decreases within a session: no update, perform_flap or
\* trigger_game_over step lowers it; a step that lowers it is a reset()
\* and sets it to 0.
C12_ScoreMonotone ==
    [][ score' >= score \/ (Self' \in FreshSessions /\ score' = 0) ]_vars

\* C12 witness: two obstacles were passed and the run is over, the score
\* still standing
C12_Witness ==
    /\ game_over
    /\ score >= 2
    /\ best = score

\* --------------------------------------------------------------------- C13
\* spacing, in px times 10 * (SCROLL_SPEED + 1), for a forward speed of v
\* px/s: 0.8 * OBSTACLE_SPACING below the ratio 0.8, 1.5 * OBSTACLE_SPACING
\* above the ratio 1.5, OBSTACLE_SPACING * (v + 1) / (SCROLL_SPEED + 1)
\* between
SpacingTimes(v) ==
    IF 10 * (v + 1) <= 8 * (SCROLL_SPEED + 1)
    THEN 8 * OBSTACLE_SPACING * (SCROLL_SPEED + 1)
    ELSE IF 10 * (v + 1) >= 15 * (SCROLL_SPEED + 1)
         THEN 15 * OBSTACLE_SPACING * (SCROLL_SPEED + 1)
         ELSE 10 * OBSTACLE_SPACING * (v + 1)

\* C13: spawn policy.  A tick of a running session appends exactly one
\* obstacle, at x = WINDOW_WIDTH + 80 before the tick's advance, if the
\* list is empty or its last obstacle's x before the advance is below
\* WINDOW_WIDTH - spacing, and appends none otherwise; spacing comes from
\* the clamped forward speed of this tick, lies in [0.8, 1.5] times
\* OBSTACLE_SPACING and does not decrease with the forward speed.
C13_SpawnPolicy ==
    [][ (InSession /\ ~game_over /\ time_accum' # time_accum) =>
          LET v == forward_speed' * SU
              adv == forward_speed' * (time_accum' - time_accum) * StepXU
              due == \/ Len(obstacles) = 0
                     \/ obstacles[Len(obstacles)].x * 10 * (SCROLL_SPEED + 1)
                           < (WINDOW_WIDTH * 10 * (SCROLL_SPEED + 1) - SpacingTimes(v)) * XU
              new == { p \in Range(obstacles') : p.id \notin Ids(obstacles) }
          IN  /\ Cardinality(new) = (IF due THEN 1 ELSE 0)
              /\ next_id' = next_id + Cardinality(new)
              /\ \A p \in new :
                    /\ p = obstacles'[Len(obstacles')]
                    /\ p.id = next_id
                    /\ ~p.passed
                    /\ p.x = (WINDOW_WIDTH + SPAWN_AHEAD) * XU - adv
              /\ SpacingNum(forward_speed') = SpacingTimes(v)
              /\ SpacingTimes(v) >= 8 * OBSTACLE_SPACING * (SCROLL_SPEED + 1)
              /\ SpacingTimes(v) <= 15 * OBSTACLE_SPACING * (SCROLL_SPEED + 1)
              /\ \A f \in 0..forward_speed' : SpacingNum(f) <= SpacingNum(forward_speed') ]_vars

\* C13 witness: a running session whose last obstacle was spawned, not
\* pre-warmed, and has come in from WINDOW_WIDTH + 80
C13_Witness ==
    /\ ~game_over
    /\ next_id > PREWARM_COUNT + 1
    /\ Len(obstacles) > 0
    /\ obstacles[Len(obstacles)].id = next_id - 1
    /\ obstacles[Len(obstacles)].x < (WINDOW_WIDTH + SPAWN_AHEAD) * XU

\* --------------------------------------------------------------------- C14
\* position of the obstacle with identity id in the sequence obs
PosOf(obs, id) == CHOOSE k \in 1..Len(obs) : obs[k].id = id

\* C14: culling.  After a tick of a running session the list holds exactly
\* the obstacles of that tick (those it started with, advanced, and the one
\* it spawned) whose x + OBSTACLE_WIDTH is at least -20; an obstacle is
\* removed exactly when x + OBSTACLE_WIDTH < -20; survivors keep their
\* order; a removed obstacle never comes back.
C14_Culling ==
    [][ InSession =>
          /\ \A id \in 1..(next_id - 1) :
                id \notin Ids(obstacles) => id \notin Ids(obstacles')
          /\ (~game_over /\ time_accum' # time_accum) =>
                LET adv == forward_speed' * (time_accum' - time_accum) * StepXU
                IN  /\ \A o \in Range(obstacles) :
                          o.id \notin Ids(obstacles')
                             <=> o.x - adv + OBSTACLE_WIDTH * XU < -(20 * XU)
                    /\ \A k \in 1..Len(obstacles') :
                          LET p == obstacles'[k]
                          IN  /\ p.x + OBSTACLE_WIDTH * XU >= -(20 * XU)
                              /\ \/ /\ p.id \in Ids(obstacles)
                                    /\ p.x = obstacles[PosOf(obstacles, p.id)].x - adv
                                 \/ /\ p.id = next_id
                                    /\ next_id' = next_id + 1
                                    /\ k = Len(obstacles')
                    /\ \A i, j \in 1..Len(obstacles') :
                          (i < j /\ obstacles'[j].id \in Ids(obstacles)) =>
                             /\ obstacles'[i].id \in Ids(obstacles)
                             /\ PosOf(obstacles, obstacles'[i].id)
                                   < PosOf(obstacles, obstacles'[j].id)
                    /\ next_id' > next_id => next_id \in Ids(obstacles') ]_vars

\* C14 witness: a running session that has lost its first obstacle to the
\* cull and kept the later ones
C14_Witness ==
    /\ ~game_over
    /\ Len(obstacles) > 1
    /\ obstacles[1].id > 1
    /\ obstacles[1].x + OBSTACLE_WIDTH * XU < 0

\* --------------------------------------------------------------------- C15
\* the tick lengths dt, in 1/TU s, with 0 < dt < -FLAP_IMPULSE / GRAVITY
ShortTicks == { dt \in 1..TU : dt * GRAVITY < (0 - FLAP_IMPULSE) * TU }

\* C15: flap is a hard velocity override.  flap() on a live bat sets vy to
\* FLAP_IMPULSE whatever it was, so that two flaps in a row equal one, and
\* leaves y alone; an update(dt) right after it with
\* 0 < dt < -FLAP_IMPULSE / GRAVITY moves the bat strictly upward.
C15_FlapOverrides ==
    bat.alive =>
       /\ BatFlap(bat).vy = FLAP_IMPULSE * VU
       /\ BatFlap(bat).y = bat.y
       /\ BatFlap(bat).x = bat.x
       /\ BatFlap(BatFlap(bat)) = BatFlap(bat)
       /\ \A dt \in ShortTicks : BatUpdate(BatFlap(bat), dt).y < bat.y

\* C15 witness: a live bat that was falling at full speed, flapped and
\* rose for a tick of 5/TU s
C15_Witness ==
    /\ query.done
    /\ bat.alive
    /\ bat.vy = ((FLAP_IMPULSE * TU + GRAVITY * 5) * VU) \div TU
    /\ bat.vy < 0
    /\ bat.y < (WINDOW_HEIGHT - BAT_BODY_RADIUS) * YU
    /\ bat.y > (WINDOW_HEIGHT \div 2) * YU

\* --------------------------------------------------------------------- C16
\* C16: perform_flap() adds exactly FORWARD_THRUST to forward_speed while
\* the bat is alive, and changes nothing at all once the run is over.  (A
\* step that keeps the clock, the game_over flag and the session is a
\* perform_flap() call or changes nothing.)
C16_FlapInertWhenOver ==
    [][ (InSession /\ time_accum' = time_accum /\ game_over' = game_over) =>
          IF game_over
          THEN Self' = Self
          ELSE /\ forward_speed' * SU = forward_speed * SU + FORWARD_THRUST
               /\ bat'.vy = FLAP_IMPULSE * VU ]_vars

\* --------------------------------------------------------------------- C17
\* C17: first-order drag.  A tick of dt of a running session that starts
\* with forward_speed = V in [0, FORWARD_THRUST + SCROLL_SPEED] ends with
\* forward_speed = V * (1 - FORWARD_DRAG * dt) when FORWARD_DRAG * dt <= 1
\* and with 0 when FORWARD_DRAG * dt > 1; no tick raises forward_speed or
\* takes it below 0.
C17_FirstOrderDrag ==
    [][ (InSession /\ ~game_over /\ time_accum' # time_accum) =>
          LET dt == time_accum' - time_accum
          IN  /\ forward_speed' <= forward_speed
              /\ forward_speed' >= 0
              /\ (forward_speed >= 0 /\ forward_speed * SU <= FORWARD_THRUST + SCROLL_SPEED) =>
                    IF FORWARD_DRAG10 * dt <= 10 * TU
                    THEN forward_speed' * 10 * TU
                            = forward_speed * (10 * TU - FORWARD_DRAG10 * dt)
                    ELSE forward_speed' = 0 ]_vars

\* C17 witness: a running session after one tick of 5/TU s that took
\* forward_speed from 2 * FORWARD_THRUST to FORWARD_THRUST
C17_Witness ==
    /\ ~game_over
    /\ time_accum = 5
    /\ forward_speed * SU = FORWARD_THRUST

\* --------------------------------------------------------------------- C18
\* C18: gap window.  Every obstacle reset() or spawn_obstacle() creates has
\* MIN_GAP <= gap_h <= MAX_GAP, gap_y >= MARGIN_TOP_BOTTOM and
\* gap_y + gap_h <= WINDOW_HEIGHT - MARGIN_TOP_BOTTOM, hence gap_y >= 0 and
\* gap_y + gap_h <= WINDOW_HEIGHT with the gap clear of the top and the
\* bottom of the world; gap_y and gap_h of an obstacle never change.
C18_GapWindow ==
    /\ [](\A o \in Range(obstacles) :
             /\ MIN_GAP <= o.gap_h /\ o.gap_h <= MAX_GAP
             /\ o.gap_y >= MARGIN_TOP_BOTTOM
             /\ o.gap_y + o.gap_h <= WINDOW_HEIGHT - MARGIN_TOP_BOTTOM
             /\ o.gap_y > 0
             /\ o.gap_y + o.gap_h < WINDOW_HEIGHT)
    /\ [][ \A o \in Range(obstacles), p \in Range(obstacles') :
              o.id = p.id => (p.gap_y = o.gap_y /\ p.gap_h = o.gap_h) ]_vars

\* C18 witness: a spawned obstacle with the tallest gap as low as it may
\* sit, in from its spawn x, behind pre-warmed ones with the shortest gap
\* as high as it may sit
C18_Witness ==
    /\ Len(obstacles) = PREWARM_COUNT + 1
    /\ obstacles[1].gap_h = MIN_GAP
    /\ obstacles[1].gap_y = MARGIN_TOP_BOTTOM
    /\ obstacles[PREWARM_COUNT + 1].gap_h = MAX_GAP
    /\ obstacles[PREWARM_COUNT + 1].gap_y + MAX_GAP = WINDOW_HEIGHT - MARGIN_TOP_BOTTOM
    /\ obstacles[PREWARM_COUNT + 1].x < (WINDOW_WIDTH + SPAWN_AHEAD) * XU

\* --------------------------------------------------------------------- C19
\* twice the signed area of the triangle p, q, r
Orient(p, q, r) == (q[1] - p[1]) * (r[2] - p[2]) - (q[2] - p[2]) * (r[1] - p[1])

\* r, known to be on the line through p and q, lies between them
Between(p, q, r) ==
    /\ Min(p[1], q[1]) <= r[1] /\ r[1] <= Max(p[1], q[1])
    /\ Min(p[2], q[2]) <= r[2] /\ r[2] <= Max(p[2], q[2])

\* the closed segments a-b and c-d have a point in common
SegmentsMeet(a, b, c, d) ==
    \/ /\ Orient(a, b, c) * Orient(a, b, d) < 0
       /\ Orient(c, d, a) * Orient(c, d, b) < 0
    \/ Orient(a, b, c) = 0 /\ Between(a, b, c)
    \/ Orient(a, b, d) = 0 /\ Between(a, b, d)
    \/ Orient(c, d, a) = 0 /\ Between(c, d, a)
    \/ Orient(c, d, b) = 0 /\ Between(c, d, b)

\* edge k of a polygon runs from vertex k to the next one, cyclically
EdgeEnd(poly, k) == poly[(k % Len(poly)) + 1]

\* no two edges of poly have a point in common, but for two neighbours
\* their shared vertex
SimpleLoop(poly) ==
    \A i, j \in 1..Len(poly) :
       i < j =>
          IF j = i + 1 \/ (i = 1 /\ j = Len(poly))
          THEN LET a == IF j = i + 1 THEN poly[i] ELSE poly[j]
                   b == IF j = i + 1 THEN poly[j] ELSE poly[i]
                   c == IF j = i + 1 THEN EdgeEnd(poly, j) ELSE EdgeEnd(poly, i)
               IN  ~(Orient(a, b, c) = 0 /\ (Between(a, b, c) \/ Between(b, c, a)))
          ELSE ~SegmentsMeet(poly[i], EdgeEnd(poly, i), poly[j], EdgeEnd(poly, j))

\* the left and the right vertex of level i (0 the base, 5 the tip)
LeftAt(poly, i) == poly[i + 1]
RightAt(poly, i) == poly[12 - i]

\* every spike of the obstacles in play
Spikes ==
    UNION { {o.top_spikes[1], o.bottom_spikes[1]} : o \in Range(obstacles) }

\* C19: every spike polygon is a simple closed loop with a base that is
\* not degenerate: its 12 vertices are pairwise distinct, the y of its six
\* levels is strictly monotone from the base to the tip, at every level the
\* left x is below the right x, no two edges cross, and both tip vertices
\* have x strictly inside (0, OBSTACLE_WIDTH).
C19_SpikeIsSimpleLoop ==
    \A poly \in Spikes :
       /\ Len(poly) = 12
       /\ \A i, j \in 1..12 : i # j => poly[i] # poly[j]
       /\ \A i \in 0..5 :
             /\ LeftAt(poly, i)[2] = RightAt(poly, i)[2]
             /\ LeftAt(poly, i)[1] < RightAt(poly, i)[1]
       /\ \/ \A i \in 0..4 : LeftAt(poly, i)[2] < LeftAt(poly, i + 1)[2]
          \/ \A i \in 0..4 : LeftAt(poly, i)[2] > LeftAt(poly, i + 1)[2]
       /\ SimpleLoop(poly)
       /\ 0 < LeftAt(poly, 5)[1] /\ LeftAt(poly, 5)[1] < OBSTACLE_WIDTH
       /\ 0 < RightAt(poly, 5)[1] /\ RightAt(poly, 5)[1] < OBSTACLE_WIDTH

\* C19 witness: a spawned obstacle whose stalactite has its tip as far left
\* as it goes and its left base clamped to the obstacle's left edge
C19_Witness ==
    /\ Len(obstacles) = PREWARM_COUNT + 1
    /\ LET poly == obstacles[PREWARM_COUNT + 1].top_spikes[1]
       IN  /\ LeftAt(poly, 0)[1] = 0
           /\ LeftAt(poly, 5)[1] = 15
           /\ RightAt(poly, 5)[1] = 17
           /\ RightAt(poly, 0)[1] = 16 + 54

\* --------------------------------------------------------------------- C20
\* C20: tip intrusion is bounded.  The stalactite is anchored at y = 0 and
\* its tip lies in [gap_y + 8, gap_y + 60]; the stalagmite is anchored at
\* y = WINDOW_HEIGHT and its tip lies in
\* [gap_y + gap_h - 60, gap_y + gap_h - 8]; both tips are inside the gap
\* window and the stalactite's tip is strictly above the stalagmite's.
C20_TipIntrusionBounded ==
    \A o \in Range(obstacles) :
       LET top == o.top_spikes[1]
           bottom == o.bottom_spikes[1]
           top_tip == LeftAt(top, 5)[2]
           bottom_tip == LeftAt(bottom, 5)[2]
       IN  /\ LeftAt(top, 0)[2] = 0 /\ RightAt(top, 0)[2] = 0
           /\ LeftAt(bottom, 0)[2] = WINDOW_HEIGHT /\ RightAt(bottom, 0)[2] = WINDOW_HEIGHT
           /\ RightAt(top, 5)[2] = top_tip /\ RightAt(bottom, 5)[2] = bottom_tip
           /\ o.gap_y + 8 <= top_tip /\ top_tip <= o.gap_y + 60
           /\ o.gap_y + o.gap_h - 60 <= bottom_tip /\ bottom_tip <= o.gap_y + o.gap_h - 8
           /\ o.gap_y <= top_tip /\ top_tip <= o.gap_y + o.gap_h
           /\ o.gap_y <= bottom_tip /\ bottom_tip <= o.gap_y + o.gap_h
           /\ top_tip < bottom_tip

\* C20 witness: a spawned obstacle with the shortest gap and both tips as
\* deep in it as they are drawn
C20_Witness ==
    /\ Len(obstacles) = PREWARM_COUNT + 1
    /\ LET o == obstacles[PREWARM_COUNT + 1]
       IN  /\ o.gap_h = MIN_GAP
           /\ LeftAt(o.top_spikes[1], 5)[2] = o.gap_y + 52
           /\ LeftAt(o.bottom_spikes[1], 5)[2] = o.gap_y + o.gap_h - 52

\* --------------------------------------------------------------------- C21
\* C21: spikes never touch the obstacle's vertical slot edges.  The tip of
\* every spike lies within [16, OBSTACLE_WIDTH - 16] and every vertex of
\* every spike polygon, in the obstacle's own coordinates, has x strictly
\* between 0 and OBSTACLE_WIDTH.
C21_SpikesInsideSlot ==
    \A poly \in Spikes :
       /\ LeftAt(poly, 5)[1] + 1 \in TipXs
       /\ RightAt(poly, 5)[1] - 1 \in TipXs
       /\ \A k \in 1..Len(poly) : 0 < poly[k][1] /\ poly[k][1] < OBSTACLE_WIDTH

\* --------------------------------------------------------------------- C22
\* C22: distance culling preserves the outcome.  In every reachable state
\* an active obstacle whose horizontal center is more than 200 px from the
\* bat has no polygon colliding with the bat's circle, so the scan's verdict
\* is that of a scan testing every active obstacle, whatever their order.
C22_CullingPreservesOutcome ==
    \A o \in Range(obstacles), up \in BOOLEAN :
       Collides(o, bat, up) =>
          /\ ~Culled(o, bat)
          /\ ObstacleHit(obstacles, bat, up)

\* C22 witness: a run ended by a spike while another active obstacle was
\* beyond the cull distance
C22_Witness ==
    /\ game_over
    /\ \E o \in Range(obstacles) : Culled(o, bat)
    /\ \E o \in Range(obstacles), up \in BOOLEAN : Collides(o, bat, up)
    /\ ~OutOfBounds(bat)

\* --------------------------------------------------------------------- C23
\* C23: the configured maximum forward speed is enforced.  Every tick of a
\* running session ends with forward_speed <= MAX_FORWARD_SPEED, however
\* many flaps came before it.
C23_MaxForwardSpeedEnforced ==
    [][ (InSession /\ ~game_over /\ time_accum' # time_accum) =>
          forward_speed' * SU <= MAX_FORWARD_SPEED ]_vars

\* --------------------------------------------------------------------- C24
\* the obstacles of the session that are no longer in the list
CulledCount == (next_id - 1) - Len(obstacles)

\* C24: every obstacle is scored before it is culled.  An obstacle a tick
\* removes has its passed flag set by then (it was set before, or the tick's
\* scoring test holds for it after the advance), and the score of a session
\* is the number of its obstacles, in the list or culled, that were passed.
C24_ScoredBeforeCulled ==
    /\ [](score = CulledCount + Cardinality({ o \in Range(obstacles) : o.passed }))
    /\ [][ (InSession /\ ~game_over /\ time_accum' # time_accum) =>
             LET adv == forward_speed' * (time_accum' - time_accum) * StepXU
             IN  \A o \in Range(obstacles) :
                    o.id \notin Ids(obstacles') =>
                       \/ o.passed
                       \/ o.x - adv + OBSTACLE_WIDTH * XU < bat'.x * XU ]_vars

\* C24 witness: a running session with two obstacles culled and scored and
\* a third one scored and still in the list
C24_Witness ==
    /\ ~game_over
    /\ CulledCount = 2
    /\ score = 3
    /\ \E o \in Range(obstacles) : o.passed

\* --------------------------------------------------------------------- C25
\* C25: the list is ordered by strictly increasing x and neighbours are at
\* least OBSTACLE_SPACING apart: two pre-warmed neighbours exactly
\* OBSTACLE_SPACING, a spawned obstacle more than 0.8 * OBSTACLE_SPACING + 80
\* from the one before it; so the OBSTACLE_WIDTH-wide slots never overlap.
C25_OrderedAndSpaced ==
    \A k \in 1..(Len(obstacles) - 1) :
       LET a == obstacles[k]
           b == obstacles[k + 1]
       IN  /\ a.x < b.x
           /\ b.x - a.x >= OBSTACLE_SPACING * XU
           /\ a.x + OBSTACLE_WIDTH * XU < b.x
           /\ b.id <= PREWARM_COUNT => b.x - a.x = OBSTACLE_SPACING * XU
           /\ b.id > PREWARM_COUNT =>
                 10 * (b.x - a.x) > (8 * OBSTACLE_SPACING + 10 * 80) * XU

\* C25 witness: a running session with two spawned obstacles at the end of
\* its list, behind a pre-warmed one
C25_Witness ==
    /\ ~game_over
    /\ Len(obstacles) >= 3
    /\ obstacles[1].id <= PREWARM_COUNT
    /\ obstacles[Len(obstacles) - 1].id > PREWARM_COUNT

\* --------------------------------------------------------------------- C26
\* C26: the list never holds more than six obstacles, and a session in
\* which the player has not flapped (forward_speed 0, nothing scrolled)
\* spawns none: its ticks leave forward_speed at 0 and add no obstacle.
C26_ObstacleCountBounded ==
    /\ [](Len(obstacles) <= 6)
    /\ [](scroll_offset = 0 => next_id = PREWARM_COUNT + 1)
    /\ [][ (InSession /\ ~game_over /\ time_accum' # time_accum
              /\ forward_speed = 0 /\ scroll_offset = 0) =>
             /\ forward_speed' = 0
             /\ next_id' = next_id
             /\ Len(obstacles') = PREWARM_COUNT ]_vars

\* C26 witness: a running session that has spawned two obstacles
C26_Witness ==
    /\ ~game_over
    /\ next_id = PREWARM_COUNT + 3
    /\ Len(obstacles) >= 4

\* --------------------------------------------------------------------- C27
\* C27: in every state reached through reset, perform_flap, update and
\* trigger_game_over, game_over is true if and only if bat.alive is false.
C27_GameOverIffDead == game_over <=> ~bat.alive

\* C27 witness: a run ended in mid-flight, the bat dead with the velocity
\* it had
C27_Witness ==
    /\ game_over
    /\ ~bat.alive
    /\ bat.vy # 0
    /\ bat_parts = BAT_PART_COUNT

\* --------------------------------------------------------------------- C28
\* C28: scroll and obstacles move in lockstep.  A tick of a running session
\* adds forward_speed * dt to scroll_offset and takes the same amount from
\* the x of every obstacle it keeps, so that x + scroll_offset of an
\* obstacle is the same in every state that holds it; scroll_offset never
\* decreases within a session.
C28_ScrollLockstep ==
    [][ InSession =>
          /\ scroll_offset' >= scroll_offset
          /\ \A o \in Range(obstacles), p \in Range(obstacles') :
                o.id = p.id => p.x + scroll_offset' = o.x + scroll_offset
          /\ (~game_over /\ time_accum' # time_accum) =>
                /\ scroll_offset' - scroll_offset
                      = forward_speed' * (time_accum' - time_accum) * StepXU
                /\ \A o \in Range(obstacles), p \in Range(obstacles') :
                      o.id = p.id => o.x - p.x = scroll_offset' - scroll_offset ]_vars

\* C28 witness: a running session whose first pre-warmed obstacle is still
\* in the list and has come in by what the world has scrolled
C28_Witness ==
    /\ ~game_over
    /\ scroll_offset > 200 * XU
    /\ Len(obstacles) > 0
    /\ obstacles[1].id = 1
    /\ obstacles[1].x + scroll_offset = (WINDOW_WIDTH + PREWARM_AHEAD) * XU

\* --------------------------------------------------------------------- C29
\* C29: without flaps the run always ends.  A running session can always
\* take its next frame (none is held back by MaxTimeFall), and from a
\* running session in which no flap is to come any more, frames of a length
\* bounded from below lead to game over.
C29_RunEndsWithoutFlaps ==
    /\ [](~game_over =>
            \E dt \in DtSet : time_accum + dt <= MaxTimeFall /\ OnGrid(forward_speed, dt))
    /\ (~game_over /\ time_accum >= MaxFlapTime) ~> game_over

\* C29 witness: a run that ended more than a long frame after the last
\* moment a flap could come, so that the bat was alive when flaps stopped
C29_Witness ==
    /\ game_over
    /\ time_accum > MaxFlapTime + 20

\* --------------------------------------------------------------------- C30
\* the obstacles already scored that the scan still tests and that overlap
\* the bat whichever way a tie is rounded
PassedAndHit ==
    { o \in Range(obstacles) :
         /\ o.passed
         /\ ~Culled(o, bat)
         /\ \A up \in BOOLEAN : Collides(o, bat, up) }

\* C30: the collision scan ignores the passed flag.  An obstacle already
\* scored is still tested while it is within the cull distance: no state
\* has the bat overlap such an obstacle with the run still on, and best
\* then includes the point awarded for it.
C30_PassedObstaclesStillCollide ==
    PassedAndHit # {} => (game_over /\ ~bat.alive /\ best >= score /\ score >= 1)

\* C30 witness: a run ended, inside the cave's bounds, by an obstacle whose
\* point had been awarded, with that point in best; no other obstacle
\* touches the bat
C30_Witness ==
    /\ game_over
    /\ ~OutOfBounds(bat)
    /\ PassedAndHit # {}
    /\ \A o \in Range(obstacles) : o.passed \/ ~Collides(o, bat, FALSE)
    /\ best = score
    /\ score >= 1

====
